---------------------------- MODULE Spec2Model ----------------------------
(***************************************************************************)
(* A model of the parsing and decoder-assembly core of the engine:         *)
(*                                                                         *)
(*   - the decoder asset builder (assetBuilderDecoder.cpp),                *)
(*   - the LogQL tokenizer and expression parser (logQLParser.cpp),        *)
(*   - the parser compiler and the pipeline executor (hlp.cpp).            *)
(*                                                                         *)
(* Each subsystem has a specification of its own (SpecDecoder, SpecTok,    *)
(* SpecHlp); the variables of the other subsystems stay at their initial   *)
(* values.                                                                 *)
(***************************************************************************)
EXTENDS Integers, Sequences, FiniteSets, TLC

VARIABLES
    \* ---- decoder asset builder ----
    isObject,       \* def.m_doc.IsObject()
    objDef,         \* the members of the definition, in document order (keys)
    bpc,            \* the builder's position
    proccessed,     \* std::unordered_set<std::string> proccessed
    stages,         \* std::vector<base::Lifter> stages
    memberIt,       \* the position of `for (auto& m : objDef)`
    registryCalls,  \* the calls made to Registry::getBuilder, in order
    chained,        \* the stage list handed to combinator.chain
    berror,         \* the exception the builder left with
    \* ---- the pattern in memory (tokenizer and HLP) ----
    logQl,          \* the pattern, without its terminating NUL
    beyond,         \* the bytes after the NUL that have been read so far
    \* ---- repeated getToken calls on one Tokenizer ----
    tkStream,       \* Tokenizer::stream, as an offset into the memory (1-based)
    tokens,         \* the tokens returned so far
    tkCrashed,      \* a read outside the pattern's buffer ended the process
    \* ---- HLP: getParserOp and the ParserFn it returns ----
    hpc,               \* where the HLP is: start, the positions inside
                       \* parseLogQlExpr and parseCapture, parsed, thrown,
                       \* crashed, compiled, exec (inside executeParserList),
                       \* executed
    kECSParserMapper,  \* the schema map, as pairs <<field name, ParserType>>
    kAvailableParsers, \* the ParserTypes that have a specific parser
    expressions,       \* ExpressionList expresions of parseLogQlExpr
    capacity,          \* expresions.capacity()
    growthPolicy,      \* how the build's std::vector grows when it is full
    optional,          \* parseCapture's local `optional`
    prev,              \* parseLogQlExpr's local `prev`, as an offset
    prevCapture,       \* parseCapture's reference `prevCapture`
    parserList,        \* the parser list the ParserFn captured
    earlier,           \* the parser list the ParserFn of an earlier
                       \* getParserOp call on the same pattern captured
    herror,            \* the exception getParserOp left with
    maxRead,           \* the highest offset of memory parseLogQlExpr read
    event,             \* the length of the event given to the ParserFn
    eventIt,           \* eventIt, as an offset into the event (0-based)
    parserIt,          \* the position of `for (auto const &parser : parsers)`
    isOk,              \* isOk
    trace,             \* trace, one entry per formatted line
    calls,             \* the calls of specific parsers made, in order
    execResult,        \* the ExecuteResult returned
    \* ---- createParserFromExpresion called on one capture ----
    cpc,               \* given (before the call), created (after it)
    capItems,          \* the items written between `<` and `>`, which the
                       \* capture's text joins with slashes
    cparser,           \* the Parser returned
    \* ---- MessageController (messageController.hpp) ----
    m_componentContexts,        \* id -> {lastMsgTime, intervalTime}
    m_componentHandle,          \* id -> RSYNC_HANDLE
    m_componentShutdownStatus,  \* id -> bool
    now,               \* std::chrono::steady_clock::now(), in clock ticks
    mcall,             \* the call that returned last since the clock
                       \* advanced, and what it returned
    lastSetInterval,   \* history: id -> the intervalTime of the last
                       \* setComponentContext for id
    \* ---- MessageController called from several threads ----
    m_mutex,           \* std::shared_timed_mutex: its exclusive owner and
                       \* the threads that share it
    thread             \* per thread: the operation it is in, its arguments
                       \* and how far it got

decoderVars == <<isObject, objDef, bpc, proccessed, stages, memberIt,
                 registryCalls, chained, berror>>

memVars == <<logQl, beyond>>

tokVars == <<tkStream, tokens, tkCrashed>>

hlpVars == <<hpc, kECSParserMapper, kAvailableParsers, expressions, capacity,
             growthPolicy, optional, prev, prevCapture, parserList, earlier,
             herror, maxRead, event, eventIt, parserIt, isOk, trace, calls,
             execResult>>

createVars == <<cpc, capItems, cparser>>

msgVars == <<m_componentContexts, m_componentHandle,
             m_componentShutdownStatus, now, mcall, lastSetInterval>>

concVars == <<m_mutex, thread>>

vars == <<decoderVars, memVars, tokVars, hlpVars, createVars, msgVars,
          concVars>>

(***************************************************************************)
(* Bounds                                                                  *)
(***************************************************************************)
MaxMembers == 5
MaxTokLen == 4
MaxBeyond == 2
MaxTokBeyond == 1
MaxPieces == 5
MaxEvent == 1
MaxOptions == 2

\* Sequences over S of length at most n.
SeqsUpTo(S, n) == UNION {[1..k -> S] : k \in 0..n}

Range(s) == {s[i] : i \in 1..Len(s)}

(***************************************************************************)
(*                        DECODER ASSET BUILDER                            *)
(***************************************************************************)

\* The keys a definition's members are drawn from: the four attributes the
\* builder reads by name, and three further stage keys.
AttributeKeys == {"name", "parents", "metadata", "check"}
StageKeys == {"s1", "s2", "s3"}
MemberKeys == AttributeKeys \cup StageKeys

NoError == [kind |-> "none", msg |-> "", nested |-> FALSE]

\* objDef.HasMember(key)
HasMember(key) == \E i \in 1..Len(objDef) : objDef[i] = key

\* objDef[key]: the first member with that key.
FindMember(key) == CHOOSE i \in 1..Len(objDef) :
                      /\ objDef[i] = key
                      /\ \A j \in 1..(i - 1) : objDef[j] # key

\* What Registry::getBuilder(name) followed by std::get<OpBuilder> and the
\* call of the builder can come to: an operator, or an exception (the name is
\* not registered, it is registered as a combinator, the builder throws).
OpBuilderOutcomes == {"op", "unknown", "combinator", "throws"}

\* The same for std::get<CombinatorBuilder>(getBuilder("combinator.chain")).
CombinatorOutcomes == {"chain", "throws"}

\* The implicit filter pushed in front of every stage list.
ImplicitFilter == [stage |-> "filter", member |-> 0]

\* The Lifter an OpBuilder returns for member i of the definition.
Lifter(key, i) == [stage |-> key, member |-> i]

\* A mutant of PushBack: the new stage goes in front of the list.
PushFront(vec, x) == <<x>> \o vec

\* std::vector::push_back
PushBack(vec, x) == Append(vec, x)

\* A mutant of Insert: the key is not recorded as processed.
InsertNothing(set, key) == set

\* std::unordered_set::insert
Insert(set, key) == set \cup {key}

\* The other subsystems at rest.
TokIdle ==
    /\ tkStream = 1
    /\ tokens = <<>>
    /\ tkCrashed = FALSE

MemIdle ==
    /\ logQl = <<>>
    /\ beyond = <<>>

ParserTypes == {"Any", "ToEnd", "Literal", "IP", "Ts", "URL", "JSON", "Map",
                "Domain", "FilePath", "UserAgent", "Number", "QuotedString",
                "Boolean"}

NoResult == [ok |-> FALSE, trace |-> <<>>]

NoException == [kind |-> "none", what |-> "", prev |-> 0]

\* prevCapture before line 144 binds it.
NoReference == [at |-> 0, dangling |-> FALSE]

\* The executor's variables outside a call of the ParserFn.
ExecIdle ==
    /\ event = 0
    /\ eventIt = 0
    /\ parserIt = 0
    /\ isOk = TRUE
    /\ trace = <<>>
    /\ calls = <<>>
    /\ execResult = NoResult

\* No Parser yet.
NoParser == [name |-> <<>>, type |-> "Any", expType |-> "Literal",
             endToken |-> "NUL", options |-> <<>>]

CreateIdle ==
    /\ cpc = "idle"
    /\ capItems = <<>>
    /\ cparser = NoParser

\* A std::map without entries.
EmptyMap == [k \in {} |-> k]

\* std::chrono::time_point<std::chrono::steady_clock>(): the clock's epoch.
Epoch == 0

\* No call of a MessageController operation has returned.
NoCall == [op |-> "none", id |-> "", retVal |-> FALSE]

MsgIdle ==
    /\ m_componentContexts = EmptyMap
    /\ m_componentHandle = EmptyMap
    /\ m_componentShutdownStatus = EmptyMap
    /\ now = Epoch
    /\ mcall = NoCall
    /\ lastSetInterval = EmptyMap

\* The threads that call the MessageController.
Threads == {"t1", "t2", "t3"}

\* A thread outside every operation.
Outside == [op |-> "none", pc |-> "outside", handle |-> "", id |-> "",
            intervalTime |-> 0, flag |-> FALSE]

\* m_mutex held by nobody.
Unlocked == [owner |-> "", shared |-> {}]

ConcIdle ==
    /\ m_mutex = Unlocked
    /\ thread = [t \in Threads |-> Outside]

\* The HLP at rest, whatever the schema map holds.
HlpAtRest ==
    /\ hpc = "idle"
    /\ kAvailableParsers = ParserTypes
    /\ expressions = <<>>
    /\ capacity = 0
    /\ growthPolicy = "double"
    /\ optional = FALSE
    /\ prev = 0
    /\ prevCapture = NoReference
    /\ parserList = <<>>
    /\ earlier = <<>>
    /\ herror = NoException
    /\ maxRead = 0
    /\ ExecIdle

HlpIdle ==
    /\ HlpAtRest
    /\ kECSParserMapper = {}

DecoderIdle ==
    /\ isObject = FALSE
    /\ objDef = <<>>
    /\ bpc = "idle"
    /\ proccessed = {}
    /\ stages = <<>>
    /\ memberIt = 0
    /\ registryCalls = <<>>
    /\ chained = <<>>
    /\ berror = NoError

DecoderInit ==
    /\ TokIdle /\ MemIdle /\ HlpIdle /\ CreateIdle /\ MsgIdle /\ ConcIdle
    /\ isObject \in BOOLEAN
    /\ objDef \in (IF isObject THEN SeqsUpTo(MemberKeys, MaxMembers) ELSE {<<>>})
    /\ bpc = "entry"
    /\ proccessed = {}
    /\ stages = <<>>
    /\ memberIt = 0
    /\ registryCalls = <<>>
    /\ chained = <<>>
    /\ berror = NoError

\* A mutant of Throw: the exception carries no nested cause.
ThrowUnnested(kind, msg, nested) ==
    /\ bpc' = "thrown"
    /\ berror' = [kind |-> kind, msg |-> msg, nested |-> FALSE]

Throw(kind, msg, nested) ==
    /\ bpc' = "thrown"
    /\ berror' = [kind |-> kind, msg |-> msg, nested |-> nested]

\* Lines 27-43: the document must be an object; the implicit filter is pushed.
AssertObject ==
    /\ bpc = "entry"
    /\ IF ~isObject
         THEN /\ Throw("invalid_argument", "expects value to be an object", FALSE)
              /\ UNCHANGED <<stages>>
         ELSE /\ stages' = PushBack(stages, ImplicitFilter)
              /\ bpc' = "name"
              /\ UNCHANGED berror
    /\ UNCHANGED <<isObject, objDef, proccessed, memberIt, registryCalls, chained>>

\* An attribute read by name (name, parents, metadata): lines 51-117.  `ok`
\* tells whether the member's value has the type the extraction asks for.
ExtractAttribute(at, key, mandatory, wrapKind, next) ==
    /\ bpc = at
    /\ IF HasMember(key)
         THEN \E ok \in BOOLEAN :
                IF ok
                  THEN /\ proccessed' = Insert(proccessed, key)
                       /\ bpc' = next
                       /\ UNCHANGED berror
                  ELSE /\ Throw(wrapKind, key, TRUE)
                       /\ UNCHANGED proccessed
         ELSE IF mandatory
                THEN /\ Throw("runtime_error", key, FALSE)
                     /\ UNCHANGED proccessed
                ELSE /\ bpc' = next
                     /\ UNCHANGED <<proccessed, berror>>
    /\ UNCHANGED <<isObject, objDef, stages, memberIt, registryCalls, chained>>

ExtractName == ExtractAttribute("name", "name", TRUE, "runtime_error", "parents")

ExtractParents ==
    ExtractAttribute("parents", "parents", FALSE, "invalid_argument", "metadata")

ExtractMetadata ==
    ExtractAttribute("metadata", "metadata", FALSE, "runtime_error", "check")

\* Lines 122-144: the check stage, built from the first `check` member.
BuildCheck ==
    /\ bpc = "check"
    /\ IF HasMember("check")
         THEN \E r \in OpBuilderOutcomes :
                /\ registryCalls' = Append(registryCalls, "check")
                /\ IF r = "op"
                     THEN /\ stages' = PushBack(stages, Lifter("check", FindMember("check")))
                          /\ proccessed' = Insert(proccessed, "check")
                          /\ bpc' = "stages"
                          /\ memberIt' = 1
                          /\ UNCHANGED berror
                     ELSE /\ Throw("runtime_error", "check", TRUE)
                          /\ UNCHANGED <<stages, proccessed, memberIt>>
         ELSE /\ Throw("invalid_argument", "check", FALSE)
              /\ UNCHANGED <<stages, proccessed, memberIt, registryCalls>>
    /\ UNCHANGED <<isObject, objDef, chained>>

\* Lines 146-168: one turn of the loop over the members.
BuildStage ==
    /\ bpc = "stages"
    /\ memberIt <= Len(objDef)
    /\ LET stageName == objDef[memberIt] IN
       IF stageName \notin proccessed
         THEN \E r \in OpBuilderOutcomes :
                /\ registryCalls' = Append(registryCalls, stageName)
                /\ IF r = "op"
                     THEN /\ stages' = PushBack(stages, Lifter(stageName, memberIt))
                          /\ proccessed' = Insert(proccessed, stageName)
                          /\ memberIt' = memberIt + 1
                          /\ UNCHANGED <<bpc, berror>>
                     ELSE /\ Throw("runtime_error", stageName, TRUE)
                          /\ UNCHANGED <<stages, proccessed, memberIt>>
         ELSE /\ memberIt' = memberIt + 1
              /\ UNCHANGED <<stages, proccessed, registryCalls, bpc, berror>>
    /\ UNCHANGED <<isObject, objDef, chained>>

\* Lines 170-183: the stages are chained and the Connectable is returned.
ChainStages ==
    /\ bpc = "stages"
    /\ memberIt > Len(objDef)
    /\ \E r \in CombinatorOutcomes :
         /\ registryCalls' = Append(registryCalls, "combinator.chain")
         /\ IF r = "chain"
              THEN /\ chained' = stages
                   /\ bpc' = "returned"
                   /\ UNCHANGED berror
              ELSE /\ Throw("runtime_error", "chaining all stages", TRUE)
                   /\ UNCHANGED chained
    /\ UNCHANGED <<isObject, objDef, proccessed, stages, memberIt>>

DecoderNext ==
    \/ AssertObject /\ UNCHANGED <<memVars, tokVars, hlpVars, createVars, msgVars, concVars>>
    \/ ExtractName /\ UNCHANGED <<memVars, tokVars, hlpVars, createVars, msgVars, concVars>>
    \/ ExtractParents /\ UNCHANGED <<memVars, tokVars, hlpVars, createVars, msgVars, concVars>>
    \/ ExtractMetadata /\ UNCHANGED <<memVars, tokVars, hlpVars, createVars, msgVars, concVars>>
    \/ BuildCheck /\ UNCHANGED <<memVars, tokVars, hlpVars, createVars, msgVars, concVars>>
    \/ BuildStage /\ UNCHANGED <<memVars, tokVars, hlpVars, createVars, msgVars, concVars>>
    \/ ChainStages /\ UNCHANGED <<memVars, tokVars, hlpVars, createVars, msgVars, concVars>>

SpecDecoder == DecoderInit /\ [][DecoderNext]_vars

(***************************************************************************)
(* Claims about the decoder asset builder                                  *)
(***************************************************************************)

\* The positions of the definition's members, in document order.
MemberPositions == [i \in 1..Len(objDef) |-> i]

\* Whether member i is the first member of the definition with its key.
FirstWithKey(i) == \A j \in 1..(i - 1) : objDef[j] # objDef[i]

\* The members that are stages other than check (their key is none of name,
\* parents, metadata, check), each key once, in document order.
ExtraStages ==
    SelectSeq(MemberPositions,
              LAMBDA i : objDef[i] \notin AttributeKeys /\ FirstWithKey(i))

StageNames(list) == [i \in 1..Len(list) |-> list[i].stage]

\* C1: the stage list handed to combinator.chain is the implicit filter, then
\* check (wherever the check member sits in the definition), then the other
\* stage keys in the order of the definition.
C1_StageOrder ==
    bpc = "returned" =>
        /\ Len(chained) = 2 + Len(ExtraStages)
        /\ chained[1] = ImplicitFilter
        /\ chained[2] = Lifter("check", FindMember("check"))
        /\ \A k \in 1..Len(ExtraStages) :
               chained[2 + k] = Lifter(objDef[ExtraStages[k]], ExtraStages[k])

\* C1 witness: a decoder was built from a definition with three further
\* stage keys, the first of them placed before the check member.
C1_Witness ==
    /\ bpc = "returned"
    /\ Len(ExtraStages) = 3
    /\ ExtraStages[1] < FindMember("check")
    /\ StageNames(chained) =
          <<"filter", "check", objDef[ExtraStages[1]], objDef[ExtraStages[2]],
            objDef[ExtraStages[3]]>>


(***************************************************************************)
(*                              TOKENIZER                                  *)
(***************************************************************************)

\* The terminating '\0' of a C string.
NUL == "NUL"

\* The characters patterns are written with.
Chars == {"<", ">", "?", "\\", "a"}

\* What a byte of memory can hold.
Bytes == Chars \cup {NUL}

\* The memory a Tokenizer reads: the pattern, its NUL, and what lies after
\* it, of which only the bytes read so far are fixed.
Mem == logQl \o <<NUL>> \o beyond

\* The offset of the pattern's terminating NUL.
NulAt == Len(logQl) + 1

\* c[0] for a pointer at offset i of memory m.  An offset past the known
\* memory reads as NUL here; a caller accepts an evaluation only if every
\* offset it read lies in m (see ReadsWithin).
Rd(m, i) == IF i <= Len(m) THEN m[i] ELSE NUL

Max(a, b) == IF a >= b THEN a ELSE b

\* The loop of lines 53-59: from offset p, the offset the literal run stops at.
RECURSIVE LiteralEnd(_, _, _)
LiteralEnd(m, p, escaped) ==
    IF Rd(m, p) # NUL /\ (escaped \/ (Rd(m, p) # "<" /\ Rd(m, p) # ">"))
      THEN LiteralEnd(m, p + 1, Rd(m, p + 1) = "\\")
      ELSE p

\* A mutant of LiteralLen: the length is one short.
LiteralLenShort(c, stream) == stream - c - 1

\* Line 60: static_cast<size_t>(tk.stream - c)
LiteralLen(c, stream) == stream - c

\* getToken (lines 41-66) on a Tokenizer at offset c of memory m.  The token
\* is returned with the Tokenizer's new offset (next) and the highest offset
\* the call read (rd); at is c, the offset the token was read at.
GetToken(m, c) ==
    LET stream == c + 1
        ch == Rd(m, c)
    IN  CASE ch = "<" -> [type |-> "OpenAngle", text |-> <<"<">>, len |-> 1,
                          at |-> c, next |-> stream, rd |-> c]
          [] ch = ">" -> [type |-> "CloseAngle", text |-> <<">">>, len |-> 1,
                          at |-> c, next |-> stream, rd |-> c]
          [] ch = "?" -> [type |-> "QuestionMark", text |-> <<"?">>, len |-> 1,
                          at |-> c, next |-> stream, rd |-> c]
          [] ch = NUL -> [type |-> "EndOfExpr", text |-> <<>>, len |-> 0,
                          at |-> c, next |-> stream, rd |-> c]
          [] OTHER ->
               LET end == LiteralEnd(m, stream, FALSE)
                   n == LiteralLen(c, end)
               IN  [type |-> "Literal", text |-> SubSeq(m, c, c + n - 1),
                    len |-> n, at |-> c, next |-> end, rd |-> end]

\* peekChar (lines 79-82)
PeekChar(m, stream) == Rd(m, stream)

\* The bytes a step may find after the known memory.  rd0 is the highest
\* offset the step reads when the unknown bytes read as NUL: a step that
\* stays inside the known memory finds nothing new; otherwise it may find
\* any bytes, as long as at most `bound` bytes after the NUL get known.
Extensions(rd0, bound) ==
    IF rd0 <= Len(Mem)
      THEN {<<>>}
      ELSE SeqsUpTo(Bytes, bound - Len(beyond)) \ {<<>>}

\* Whether an evaluation that read up to offset rd of memory Mem \o ext read
\* known bytes only, and all of the bytes ext adds.
ReadsWithin(ext, rd) ==
    /\ rd <= Len(Mem) + Len(ext)
    /\ ext # <<>> => rd = Len(Mem) + Len(ext)

(***************************************************************************)
(* Repeated getToken calls on one Tokenizer, from the start of a pattern.  *)
(***************************************************************************)

TokPatterns == SeqsUpTo(Chars, MaxTokLen)

TokInit ==
    /\ DecoderIdle /\ HlpIdle /\ CreateIdle /\ MsgIdle /\ ConcIdle
    /\ logQl \in TokPatterns
    /\ beyond = <<>>
    /\ tkStream = 1
    /\ tokens = <<>>
    /\ tkCrashed = FALSE

\* One call of getToken(tk).
GetTokenCall ==
    /\ ~tkCrashed
    /\ \E ext \in Extensions(GetToken(Mem, tkStream).rd, MaxTokBeyond) :
         LET t == GetToken(Mem \o ext, tkStream) IN
         /\ ReadsWithin(ext, t.rd)
         /\ tokens' = Append(tokens, t)
         /\ tkStream' = t.next
         /\ beyond' = beyond \o ext
    /\ UNCHANGED <<logQl, tkCrashed>>

\* A call that reads past the pattern's buffer can end the process.
GetTokenFault ==
    /\ ~tkCrashed
    /\ tkStream > NulAt
    /\ tkCrashed' = TRUE
    /\ UNCHANGED <<logQl, beyond, tkStream, tokens>>

TokNext ==
    \/ GetTokenCall /\ UNCHANGED <<decoderVars, hlpVars, createVars, msgVars, concVars>>
    \/ GetTokenFault /\ UNCHANGED <<decoderVars, hlpVars, createVars, msgVars, concVars>>

SpecTok == TokInit /\ [][TokNext]_vars

(***************************************************************************)
(* Claims about the tokenizer                                              *)
(***************************************************************************)

\* Whether tokens[i] is the first EndOfExpr token returned.
FirstEndOfExpr(i) ==
    /\ tokens[i].type = "EndOfExpr"
    /\ \A j \in 1..(i - 1) : tokens[j].type # "EndOfExpr"

EndReached == \E i \in 1..Len(tokens) : tokens[i].type = "EndOfExpr"

\* The number of tokens returned before the first EndOfExpr.
TokensBeforeEnd ==
    IF EndReached
      THEN (CHOOSE i \in 1..Len(tokens) : FirstEndOfExpr(i)) - 1
      ELSE Len(tokens)

\* The texts of tokens[1..n], one after the other.
RECURSIVE TextOfTokens(_)
TextOfTokens(n) ==
    IF n = 0 THEN <<>> ELSE TextOfTokens(n - 1) \o tokens[n].text

\* Whether the backslash at offset i of the pattern escapes what follows it:
\* it is not itself preceded by a backslash.
EscapingBackslash(i) ==
    /\ i >= 1
    /\ logQl[i] = "\\"
    /\ i > 1 => logQl[i - 1] # "\\"

\* C5: a `<` or `>` preceded by a backslash does not terminate a Literal
\* token: no Literal token stops at a bracket that an escaping backslash
\* precedes.
C5_EscapedBracketInLiteral ==
    \A i \in 1..Len(tokens) :
        (tokens[i].type = "Literal" /\ tokens[i].next <= Len(logQl)) =>
            ~(/\ logQl[tokens[i].next] \in {"<", ">"}
              /\ EscapingBackslash(tokens[i].next - 1))

\* C9: repeated getToken calls from the start reach EndOfExpr after at most
\* Len(pattern) + 1 calls; every call advances the cursor; the tokens before
\* EndOfExpr lie one after the other from the start of the pattern, and their
\* texts, joined, are the pattern read so far (all of it once EndOfExpr is
\* returned).
C9_TokenizerTotality ==
    LET n == TokensBeforeEnd
        cursor == IF n = 0 THEN 1 ELSE tokens[n].next
    IN  /\ \A i \in 1..Len(tokens) : tokens[i].next > tokens[i].at
        /\ \A i \in 1..n :
               tokens[i].at = (IF i = 1 THEN 1 ELSE tokens[i - 1].next)
        /\ n <= Len(logQl)
        /\ cursor <= NulAt
        /\ TextOfTokens(n) = SubSeq(logQl, 1, cursor - 1)
        /\ EndReached => /\ cursor = NulAt
                         /\ tokens[n + 1].at = NulAt
                         /\ TextOfTokens(n) = logQl
        /\ ~EndReached => /\ tkStream = cursor
                          /\ ~tkCrashed
                          /\ ENABLED GetTokenCall

\* C9 witness: a pattern of a literal, brackets and a question mark was
\* tokenized into at least three tokens and EndOfExpr was returned.
C9_Witness ==
    /\ EndReached
    /\ TokensBeforeEnd >= 3
    /\ \E i \in 1..TokensBeforeEnd : tokens[i].type = "Literal" /\ tokens[i].len >= 2
    /\ \E i \in 1..TokensBeforeEnd : tokens[i].type = "OpenAngle"
    /\ TextOfTokens(TokensBeforeEnd) = logQl

\* C10: once EndOfExpr was returned at the terminating NUL, the cursor is
\* still at the NUL and every later call returns EndOfExpr from that offset.
C10_EndOfExprRepeats ==
    \A i \in 1..Len(tokens) :
        (tokens[i].type = "EndOfExpr" /\ tokens[i].at = NulAt) =>
            /\ tokens[i].next = NulAt
            /\ \A j \in (i + 1)..Len(tokens) :
                   tokens[j].type = "EndOfExpr" /\ tokens[j].at = NulAt

(***************************************************************************)
(*                           PARSER COMPILER                               *)
(***************************************************************************)

\* kSchema2ParserType (lines 25-40), as the pairs <<schema type, ParserType>>.
kSchema2ParserType ==
    {<<"keyword", "Any">>, <<"any", "ToEnd">>, <<"ip", "IP">>,
     <<"timestamp", "Ts">>, <<"url", "URL">>, <<"json", "JSON">>,
     <<"map", "Map">>, <<"domain", "Domain">>, <<"filepath", "FilePath">>,
     <<"useragent", "UserAgent">>, <<"number", "Number">>,
     <<"quoted", "QuotedString">>, <<"boolean", "Boolean">>}

\* kTempTypeMapper (lines 75-88), as the pairs <<option, ParserType>>; an
\* option is the sequence of its characters.
kTempTypeMapper ==
    {<< <<"j", "s", "o", "n">>, "JSON" >>,
     << <<"m", "a", "p">>, "Map" >>,
     << <<"t", "i", "m", "e", "s", "t", "a", "m", "p">>, "Ts" >>,
     << <<"d", "o", "m", "a", "i", "n">>, "Domain" >>,
     << <<"f", "i", "l", "e", "p", "a", "t", "h">>, "FilePath" >>,
     << <<"u", "s", "e", "r", "a", "g", "e", "n", "t">>, "UserAgent" >>,
     << <<"u", "r", "l">>, "URL" >>,
     << <<"q", "u", "o", "t", "e", "d", "_", "s", "t", "r", "i", "n", "g">>,
        "QuotedString" >>,
     << <<"i", "p">>, "IP" >>,
     << <<"n", "u", "m", "b", "e", "r">>, "Number" >>,
     << <<"t", "o", "e", "n", "d">>, "ToEnd" >>}

\* map.find(key) != map.end(), and the value found, for a map given as pairs.
Has(map, key) == \E kv \in map : kv[1] = key
At(map, key) == (CHOOSE kv \in map : kv[1] = key)[2]

\* splitSlashSeparatedField (lines 98-119)
RECURSIVE SplitSlashSeparatedField(_)
SplitSlashSeparatedField(str) ==
    IF \E i \in 1..Len(str) : str[i] = "/"
      THEN LET pos == CHOOSE i \in 1..Len(str) :
                        str[i] = "/" /\ \A j \in 1..(i - 1) : str[j] # "/"
           IN  <<SubSeq(str, 1, pos - 1)>>
                 \o SplitSlashSeparatedField(SubSeq(str, pos + 1, Len(str)))
      ELSE IF str # <<>> THEN <<str>> ELSE <<>>

\* Whether createParserFromExpresion reads args[0] of an empty vector.
ReadsEmptyArgs(exp) == SplitSlashSeparatedField(exp.text) = <<>>

\* A mutant of SchemaType: the schema map is not looked at.
SchemaTypeIgnored(ecs, name) == "Any"

\* Lines 168-172: the type the schema map gives a name, Any without entry.
SchemaType(ecs, name) == IF Has(ecs, name) THEN At(ecs, name) ELSE "Any"

\* A mutant of EraseFirst: nothing is erased.
EraseNothing(args) == args

\* Line 162: args.erase(args.begin())
EraseFirst(args) == Tail(args)

\* createParserFromExpresion (lines 131-179) with the schema map `ecs`.
\* `garbage` is the name read when args is empty (args[0] of an empty
\* vector).  options are the arguments handed to the type's configurator.
CreateParserFromExpresion(exp, ecs, garbage) ==
    LET split == SplitSlashSeparatedField(exp.text)
        name == IF split = <<>> THEN garbage ELSE split[1]
        args == IF split = <<>> THEN <<>> ELSE Tail(split)
        temp == name # <<>> /\ name[1] = "_"
        typed == temp /\ Len(name) # 1 /\ args # <<>>
        type == IF temp
                  THEN IF typed /\ Has(kTempTypeMapper, args[1])
                         THEN At(kTempTypeMapper, args[1])
                         ELSE "Any"
                  ELSE SchemaType(ecs, name)
    IN  [name |-> name, type |-> type, expType |-> exp.type,
         endToken |-> exp.endToken,
         options |-> IF typed THEN EraseFirst(args) ELSE args]

\* getParserList (lines 181-216)
GetParserList(exprs, ecs, garbage) ==
    [i \in 1..Len(exprs) |->
        IF exprs[i].type = "Literal"
          THEN [name |-> exprs[i].text, type |-> "Literal",
                expType |-> "Literal", endToken |-> exprs[i].endToken,
                options |-> <<>>]
          ELSE CreateParserFromExpresion(exprs[i], ecs, garbage)]

(***************************************************************************)
(*                          EXPRESSION PARSER                              *)
(***************************************************************************)

\* An Expression built from token t: {{token.text, token.len}, type}, its
\* endToken value-initialised.  src and end are not fields of Expression:
\* they record the offset of the pattern the token was read at (src) and the
\* offset right after it (end).
Expression(t, type) ==
    [text |-> t.text, type |-> type, endToken |-> NUL,
     src |-> t.at, end |-> t.next]

\* seq with its last element replaced: expresions.back() = e
SetBack(seq, e) == [seq EXCEPT ![Len(seq)] = e]

Back(seq) == seq[Len(seq)]

\* How the standard library of a build grows a full vector on push_back:
\* to twice its capacity, or to its capacity and a half.
GrowthPolicies == {"double", "half"}

\* The capacity a full vector of capacity cap grows to.
GrowthChoices(cap) ==
    IF growthPolicy = "double"
      THEN Max(1, 2 * cap)
      ELSE cap + Max(1, cap \div 2)

\* expresions.push_back(e): a full vector moves to a larger buffer.
PushBackExpression(e) ==
    /\ expressions' = Append(expressions, e)
    /\ capacity' = IF Len(expressions) = capacity
                     THEN GrowthChoices(capacity)
                     ELSE capacity

\* A mutant of EndTokenAt: the character one further on is taken.
EndTokenAtNext(m, stream) == PeekChar(m, stream + 1)

\* Lines 156 and 164: the endToken is the character at the stream.
EndTokenAt(m, stream) == PeekChar(m, stream)

\* A mutant of BackToBack: two captures in a row are let through.
BackToBackAllowed(peekedType) == FALSE

\* Line 200: whether the token after a capture makes the pattern invalid.
BackToBack(peekedType) == peekedType = "OpenAngle"

\* The positions of parseLogQlExpr and parseCapture at which the next thing
\* done is a read of the pattern through the Tokenizer.
ReadingPositions == {"loop", "capture", "name", "close", "peek", "orOpen",
                     "orEnd", "orClose", "after"}

\* The highest offset of memory m the step at the current position reads:
\* the token at the stream, and for the closing `>` of a second alternative
\* the character after it (peekChar, line 156).
StepRd(m) ==
    LET t == GetToken(m, tkStream)
    IN  IF hpc = "orClose" /\ t.type = "CloseAngle" THEN t.next ELSE t.rd

\* What the step at the current position may find after the known memory.
Reveals == Extensions(StepRd(Mem), MaxBeyond)

\* The step read known bytes and the bytes ext only; ext is now known.
Revealed(ext) ==
    /\ ReadsWithin(ext, StepRd(Mem \o ext))
    /\ beyond' = beyond \o ext
    /\ maxRead' = Max(maxRead, StepRd(Mem \o ext))

\* What no step of getParserOp changes.
CompileFrame ==
    UNCHANGED <<kECSParserMapper, kAvailableParsers, growthPolicy, earlier,
                event, eventIt, parserIt, isOk, trace, calls, execResult,
                logQl>>

\* throw std::runtime_error(msg) out of parseLogQlExpr and getParserOp.  The
\* message names the offset `at` for a capture that does not parse
\* ("capture") and for two captures back to back ("backtoback").
ThrowRuntimeError(what, at) ==
    /\ hpc' = "thrown"
    /\ herror' = [kind |-> "runtime_error", what |-> what, prev |-> at]

\* getParserOp up to the loop of parseLogQlExpr (hlp.cpp lines 268-276,
\* logQLParser.cpp lines 179-181).
GetParserOp ==
    /\ hpc = "start"
    /\ IF logQl = <<>>
         THEN /\ hpc' = "thrown"
              /\ herror' = [kind |-> "invalid_argument", what |-> "empty",
                            prev |-> 0]
         ELSE /\ hpc' = "loop"
              /\ UNCHANGED herror
    /\ tkStream' = 1
    /\ expressions' = <<>>
    /\ capacity' = 0
    /\ UNCHANGED <<optional, prev, prevCapture, parserList, maxRead, beyond>>
    /\ CompileFrame

\* One turn of the loop of parseLogQlExpr (lines 182-226), up to the call of
\* parseCapture.
ParseToken ==
    /\ hpc = "loop"
    /\ \E ext \in Reveals :
         LET token == GetToken(Mem \o ext, tkStream) IN
         /\ Revealed(ext)
         /\ tkStream' = token.next
         /\ CASE token.type = "OpenAngle" ->
                   /\ prev' = token.next - 1
                   /\ hpc' = "capture"
                   /\ UNCHANGED <<expressions, capacity, herror>>
              [] token.type = "Literal" ->
                   /\ PushBackExpression(Expression(token, "Literal"))
                   /\ UNCHANGED <<prev, hpc, herror>>
              [] token.type = "EndOfExpr" ->
                   /\ hpc' = "parsed"
                   /\ UNCHANGED <<expressions, capacity, prev, herror>>
              [] OTHER ->
                   /\ ThrowRuntimeError("unknown", 0)
                   /\ UNCHANGED <<expressions, capacity, prev>>
    /\ UNCHANGED <<optional, prevCapture, parserList>>
    /\ CompileFrame

\* Lines 117-120 and 167-170 for the token that is to name the capture.
CaptureName(token) ==
    /\ tkStream' = token.next
    /\ IF token.type = "Literal"
         THEN /\ PushBackExpression(Expression(token, "Capture"))
              /\ hpc' = "close"
              /\ UNCHANGED herror
         ELSE /\ ThrowRuntimeError("capture", prev)
              /\ UNCHANGED <<expressions, capacity>>

\* parseCapture, lines 109-120: the first token after the `<`.
ParseCaptureFirst ==
    /\ hpc = "capture"
    /\ \E ext \in Reveals :
         LET token == GetToken(Mem \o ext, tkStream) IN
         /\ Revealed(ext)
         /\ IF token.type = "QuestionMark"
              THEN /\ optional' = TRUE
                   /\ tkStream' = token.next
                   /\ hpc' = "name"
                   /\ UNCHANGED <<expressions, capacity, herror>>
              ELSE /\ optional' = FALSE
                   /\ CaptureName(token)
    /\ UNCHANGED <<prev, prevCapture, parserList>>
    /\ CompileFrame

\* parseCapture, lines 114-120: the token after `<?`.
ParseCaptureName ==
    /\ hpc = "name"
    /\ \E ext \in Reveals :
         /\ Revealed(ext)
         /\ CaptureName(GetToken(Mem \o ext, tkStream))
    /\ UNCHANGED <<optional, prev, prevCapture, parserList>>
    /\ CompileFrame

\* parseCapture, lines 122-131: the closing `>` and the optional tag.
RequireClose ==
    /\ hpc = "close"
    /\ \E ext \in Reveals :
         LET token == GetToken(Mem \o ext, tkStream) IN
         /\ Revealed(ext)
         /\ tkStream' = token.next
         /\ IF token.type # "CloseAngle"
              THEN /\ ThrowRuntimeError("capture", prev)
                   /\ UNCHANGED expressions
              ELSE /\ expressions' =
                        IF optional
                          THEN SetBack(expressions, [Back(expressions) EXCEPT
                                                 !.type = "OptionalCapture"])
                          ELSE expressions
                   /\ hpc' = "peek"
                   /\ UNCHANGED herror
    /\ UNCHANGED <<capacity, optional, prev, prevCapture, parserList>>
    /\ CompileFrame

\* parseCapture, lines 133-137 and 161-165: a peeked `?` is taken, anything
\* else ends the capture with its endToken.
PeekQuestionMark ==
    /\ hpc = "peek"
    /\ \E ext \in Reveals :
         LET peeked == GetToken(Mem \o ext, tkStream) IN
         /\ Revealed(ext)
         /\ IF peeked.type = "QuestionMark"
              THEN /\ tkStream' = peeked.next
                   /\ hpc' = "orOpen"
                   /\ UNCHANGED expressions
              ELSE /\ expressions' =
                        SetBack(expressions, [Back(expressions) EXCEPT
                           !.endToken = EndTokenAt(Mem \o ext, tkStream)])
                   /\ hpc' = "after"
                   /\ UNCHANGED tkStream
    /\ UNCHANGED <<capacity, optional, prev, prevCapture, parserList, herror>>
    /\ CompileFrame

\* parseCapture, lines 139-145: the `<` of the second alternative; the first
\* becomes an OrCapture through the reference prevCapture.
RequireOrOpen ==
    /\ hpc = "orOpen"
    /\ \E ext \in Reveals :
         LET token == GetToken(Mem \o ext, tkStream) IN
         /\ Revealed(ext)
         /\ tkStream' = token.next
         /\ IF token.type # "OpenAngle"
              THEN /\ ThrowRuntimeError("capture", prev)
                   /\ UNCHANGED <<expressions, prevCapture>>
              ELSE /\ prevCapture' = [at |-> Len(expressions),
                                      dangling |-> FALSE]
                   /\ expressions' =
                        SetBack(expressions, [Back(expressions) EXCEPT
                                                 !.type = "OrCapture"])
                   /\ hpc' = "orEnd"
                   /\ UNCHANGED herror
    /\ UNCHANGED <<capacity, optional, prev, parserList>>
    /\ CompileFrame

\* parseCapture, lines 147-149: whatever token follows names the second
\* alternative.  A push_back that moves the vector leaves prevCapture
\* referring to the freed buffer.
OrEnd ==
    /\ hpc = "orEnd"
    /\ \E ext \in Reveals :
         LET orEnd == GetToken(Mem \o ext, tkStream) IN
         /\ Revealed(ext)
         /\ tkStream' = orEnd.next
         /\ PushBackExpression(Expression(orEnd, "Capture"))
    /\ prevCapture' = [prevCapture EXCEPT
                          !.dangling = (Len(expressions) = capacity)]
    /\ hpc' = "orClose"
    /\ UNCHANGED <<optional, prev, parserList, herror>>
    /\ CompileFrame

\* parseCapture, lines 151-159: the closing `>` of the second alternative
\* and the endToken of both.  The assignment through a dangling prevCapture
\* does not reach the list.
RequireOrClose ==
    /\ hpc = "orClose"
    /\ \E ext \in Reveals :
         LET token == GetToken(Mem \o ext, tkStream)
             endToken == EndTokenAt(Mem \o ext, token.next)
             current == SetBack(expressions, [Back(expressions) EXCEPT
                                                 !.endToken = endToken])
         IN
         /\ Revealed(ext)
         /\ tkStream' = token.next
         /\ IF token.type # "CloseAngle"
              THEN /\ ThrowRuntimeError("capture", prev)
                   /\ UNCHANGED expressions
              ELSE /\ expressions' =
                        IF prevCapture.dangling
                          THEN current
                          ELSE [current EXCEPT
                                  ![prevCapture.at].endToken = endToken]
                   /\ hpc' = "after"
                   /\ UNCHANGED herror
    /\ UNCHANGED <<capacity, optional, prev, prevCapture, parserList>>
    /\ CompileFrame

\* parseLogQlExpr, lines 200-207: after a capture, a peeked `<` is an error.
PeekBackToBack ==
    /\ hpc = "after"
    /\ \E ext \in Reveals :
         /\ Revealed(ext)
         /\ IF BackToBack(GetToken(Mem \o ext, tkStream).type)
              THEN ThrowRuntimeError("backtoback", prev)
              ELSE hpc' = "loop" /\ UNCHANGED herror
    /\ UNCHANGED <<tkStream, expressions, capacity, optional, prev, prevCapture,
                   parserList>>
    /\ CompileFrame

(***************************************************************************)
(*                 getParserOp AND THE PIPELINE EXECUTOR                   *)
(***************************************************************************)

\* The patterns: up to MaxPieces pieces, each a character or a capture.
Pieces == {<<"<">>, <<">">>, <<"?">>, <<"a">>, <<"<", "a", ">">>}

RECURSIVE Concat(_)
Concat(ss) == IF ss = <<>> THEN <<>> ELSE Head(ss) \o Concat(Tail(ss))

HlpPatterns == {Concat(ps) : ps \in SeqsUpTo(Pieces, MaxPieces)}

\* The schema documents configureParserMappings is given.
SchemaConfigs ==
    {[kind |-> "empty", members |-> <<>>],
     [kind |-> "invalid", members |-> <<>>],
     [kind |-> "object",
      members |-> <<[name |-> <<"a">>, value |-> "number"]>>],
     [kind |-> "object",
      members |-> <<[name |-> <<"a">>, value |-> "nosuchtype"]>>]}

\* The tables of specific parsers: every type has one, or Any has none.
ParserTables == {ParserTypes, ParserTypes \ {"Any"}}

\* The names args[0] of an empty vector can read.
GarbageNames == {<<>>, <<"a">>}

HlpInit ==
    /\ DecoderIdle /\ TokIdle /\ CreateIdle /\ MsgIdle /\ ConcIdle
    /\ logQl \in HlpPatterns
    /\ beyond = <<>>
    /\ hpc = "start"
    /\ kECSParserMapper = {}
    /\ kAvailableParsers \in ParserTables
    /\ expressions = <<>>
    /\ capacity = 0
    /\ growthPolicy \in GrowthPolicies
    /\ optional = FALSE
    /\ prev = 0
    /\ prevCapture = NoReference
    /\ parserList = <<>>
    /\ earlier = <<>>
    /\ herror = NoException
    /\ maxRead = 0
    /\ ExecIdle

\* The loop of configureParserMappings (lines 59-72) over members[i..].
RECURSIVE MapMembers(_, _, _)
MapMembers(members, i, ecs) ==
    IF i > Len(members)
      THEN ecs
      ELSE MapMembers(members, i + 1,
             IF Has(kSchema2ParserType, members[i].value)
               THEN {kv \in ecs : kv[1] # members[i].name}
                      \cup {<<members[i].name,
                              At(kSchema2ParserType, members[i].value)>>}
               ELSE ecs)

\* configureParserMappings (lines 23-73), before any pattern is compiled.
ConfigureParserMappings ==
    /\ hpc = "start"
    /\ \E config \in SchemaConfigs :
         kECSParserMapper' =
            IF config.kind = "object"
              THEN MapMembers(config.members, 1, kECSParserMapper)
              ELSE kECSParserMapper
    /\ UNCHANGED <<hpc, kAvailableParsers, expressions, capacity, growthPolicy,
                   optional, prev, prevCapture, parserList, earlier, herror,
                   maxRead, event, eventIt, parserIt, isOk, trace, calls,
                   execResult, logQl, beyond, tkStream>>

\* Whether createParserFromExpresion reads args[0] of an empty vector for
\* one of the expressions.
EmptyArgsRead ==
    \E i \in 1..Len(expressions) :
        expressions[i].type # "Literal" /\ ReadsEmptyArgs(expressions[i])

\* getParserOp from the return of parseLogQlExpr (hlp.cpp lines 276-296).
CompileParserList ==
    /\ hpc = "parsed"
    /\ IF expressions = <<>>
         THEN /\ ThrowRuntimeError("noexpressions", 0)
              /\ UNCHANGED parserList
         ELSE \E garbage \in (IF EmptyArgsRead THEN GarbageNames ELSE {<<>>}) :
                /\ parserList' = GetParserList(expressions, kECSParserMapper,
                                               garbage)
                /\ hpc' = "compiled"
                /\ UNCHANGED herror
    /\ UNCHANGED <<tkStream, expressions, capacity, optional, prev, prevCapture,
                   maxRead, beyond>>
    /\ CompileFrame

\* The process ends inside getParserOp.
Crash ==
    /\ hpc' = "crashed"
    /\ UNCHANGED <<tkStream, expressions, capacity, optional, prev, prevCapture,
                   parserList, herror, maxRead, beyond>>
    /\ CompileFrame

\* A read past the pattern's buffer can end the process.
ReadFault ==
    /\ hpc \in ReadingPositions
    /\ StepRd(Mem) > NulAt
    /\ Crash

\* The assignment through a dangling prevCapture (line 159) can end the
\* process.
DanglingWriteFault ==
    /\ hpc = "orClose"
    /\ prevCapture.dangling
    /\ StepRd(Mem) <= Len(Mem)
    /\ GetToken(Mem, tkStream).type = "CloseAngle"
    /\ Crash

\* args[0] of an empty vector (hlp.cpp line 141) can end the process.
EmptyArgsFault ==
    /\ hpc = "parsed"
    /\ EmptyArgsRead
    /\ Crash

\* What a call of the ParserFn leaves alone: the pattern, the tables and
\* what getParserOp built.
CompiledFrame ==
    UNCHANGED <<kECSParserMapper, kAvailableParsers, expressions, capacity,
                growthPolicy, optional, prev, prevCapture, parserList, earlier,
                herror, maxRead, logQl, beyond, tkStream>>

\* getParserOp is called again with the same pattern; the ParserFn returned
\* before keeps its parser list, and the new one has not been called.
CompileAgain ==
    /\ hpc \in {"compiled", "executed"}
    /\ earlier = <<>>
    /\ earlier' = parserList
    /\ hpc' = "start"
    /\ event' = 0
    /\ eventIt' = 0
    /\ parserIt' = 0
    /\ isOk' = TRUE
    /\ trace' = <<>>
    /\ calls' = <<>>
    /\ execResult' = NoResult
    /\ UNCHANGED <<kECSParserMapper, kAvailableParsers, expressions, capacity,
                   growthPolicy, optional, prev, prevCapture, parserList,
                   herror, maxRead, logQl, beyond, tkStream>>

\* What a specific parser can do when called with the cursor at offset it of
\* an event of n characters: succeed or fail, leaving the cursor anywhere
\* from it on.
ParseFuncOutcomes(it, n) == [ok : BOOLEAN, it : it..n]

\* The ParserFn is called with an event: executeParserList, lines 218-229.
InvokeParserFn ==
    /\ hpc \in {"compiled", "executed"}
    /\ \E n \in 0..MaxEvent : event' = n
    /\ eventIt' = 0
    /\ parserIt' = 1
    /\ isOk' = TRUE
    /\ trace' = <<>>
    /\ calls' = <<>>
    /\ execResult' = NoResult
    /\ hpc' = "exec"
    /\ CompiledFrame

\* A mutant of RestoreCursor: the cursor stays where the parser left it.
KeepCursor(prevIt, it) == it

\* Line 251: eventIt = prevIt
RestoreCursor(prevIt, it) == prevIt

\* A mutant of SkippableFailure: no failure is passed over.
NeverSkippable(expType) == FALSE

\* Lines 247-248: the failures the executor passes over.
SkippableFailure(expType) == expType \in {"OptionalCapture", "OrCapture"}

\* A mutant of MissingImplementation: the lines gathered so far are dropped.
MissingImplementationOnly(gathered, name) ==
    [ok |-> FALSE, trace |-> <<[name |-> name, what |-> "missing"]>>]

\* Lines 241-242: the result returned for a parser without implementation.
MissingImplementation(gathered, name) ==
    [ok |-> FALSE,
     trace |-> Append(gathered, [name |-> name, what |-> "missing"])]

\* One turn of the loop of executeParserList (lines 230-263).
ExecuteParser ==
    /\ hpc = "exec"
    /\ parserIt <= Len(parserList)
    /\ LET parser == parserList[parserIt]
           prevIt == eventIt
       IN
       IF parser.type \notin kAvailableParsers
         THEN /\ execResult' = MissingImplementation(trace, parser.name)
              /\ hpc' = "executed"
              /\ UNCHANGED <<eventIt, parserIt, isOk, trace, calls>>
         ELSE \E out \in ParseFuncOutcomes(eventIt, event) :
                /\ calls' = Append(calls, [parser |-> parserIt, from |-> prevIt,
                                           ok |-> out.ok, to |-> out.it])
                /\ IF ~out.ok
                     THEN IF SkippableFailure(parser.expType)
                            THEN /\ eventIt' = RestoreCursor(prevIt, out.it)
                                 /\ isOk' = TRUE
                                 /\ parserIt' = parserIt + 1
                                 /\ UNCHANGED <<trace, execResult, hpc>>
                            ELSE /\ execResult' =
                                       [ok |-> FALSE,
                                        trace |-> Append(trace,
                                                    [name |-> parser.name,
                                                     what |-> "failure"])]
                                 /\ hpc' = "executed"
                                 /\ eventIt' = out.it
                                 /\ isOk' = FALSE
                                 /\ UNCHANGED <<parserIt, trace>>
                     ELSE /\ trace' = Append(trace, [name |-> parser.name,
                                                     what |-> "success"])
                          /\ eventIt' = out.it
                          /\ isOk' = TRUE
                          /\ parserIt' = parserIt + 1
                          /\ UNCHANGED <<execResult, hpc>>
    /\ UNCHANGED event
    /\ CompiledFrame

\* Line 265: return ExecuteResult{isOk, trace}
ExecuteReturn ==
    /\ hpc = "exec"
    /\ parserIt > Len(parserList)
    /\ execResult' = [ok |-> isOk, trace |-> trace]
    /\ hpc' = "executed"
    /\ UNCHANGED <<event, eventIt, parserIt, isOk, trace, calls>>
    /\ CompiledFrame

HlpNext ==
    \/ ConfigureParserMappings /\ UNCHANGED <<decoderVars, tokens, tkCrashed, createVars, msgVars, concVars>>
    \/ GetParserOp /\ UNCHANGED <<decoderVars, tokens, tkCrashed, createVars, msgVars, concVars>>
    \/ ParseToken /\ UNCHANGED <<decoderVars, tokens, tkCrashed, createVars, msgVars, concVars>>
    \/ ParseCaptureFirst /\ UNCHANGED <<decoderVars, tokens, tkCrashed, createVars, msgVars, concVars>>
    \/ ParseCaptureName /\ UNCHANGED <<decoderVars, tokens, tkCrashed, createVars, msgVars, concVars>>
    \/ RequireClose /\ UNCHANGED <<decoderVars, tokens, tkCrashed, createVars, msgVars, concVars>>
    \/ PeekQuestionMark /\ UNCHANGED <<decoderVars, tokens, tkCrashed, createVars, msgVars, concVars>>
    \/ RequireOrOpen /\ UNCHANGED <<decoderVars, tokens, tkCrashed, createVars, msgVars, concVars>>
    \/ OrEnd /\ UNCHANGED <<decoderVars, tokens, tkCrashed, createVars, msgVars, concVars>>
    \/ RequireOrClose /\ UNCHANGED <<decoderVars, tokens, tkCrashed, createVars, msgVars, concVars>>
    \/ PeekBackToBack /\ UNCHANGED <<decoderVars, tokens, tkCrashed, createVars, msgVars, concVars>>
    \/ CompileParserList /\ UNCHANGED <<decoderVars, tokens, tkCrashed, createVars, msgVars, concVars>>
    \/ ReadFault /\ UNCHANGED <<decoderVars, tokens, tkCrashed, createVars, msgVars, concVars>>
    \/ DanglingWriteFault /\ UNCHANGED <<decoderVars, tokens, tkCrashed, createVars, msgVars, concVars>>
    \/ EmptyArgsFault /\ UNCHANGED <<decoderVars, tokens, tkCrashed, createVars, msgVars, concVars>>
    \/ InvokeParserFn /\ UNCHANGED <<decoderVars, tokens, tkCrashed, createVars, msgVars, concVars>>
    \/ ExecuteParser /\ UNCHANGED <<decoderVars, tokens, tkCrashed, createVars, msgVars, concVars>>
    \/ ExecuteReturn /\ UNCHANGED <<decoderVars, tokens, tkCrashed, createVars, msgVars, concVars>>
    \/ CompileAgain /\ UNCHANGED <<decoderVars, tokens, tkCrashed, createVars, msgVars, concVars>>

SpecHlp == HlpInit /\ [][HlpNext]_vars

(***************************************************************************)
(* Claims about the expression parser and the parser compiler              *)
(***************************************************************************)

\* parseLogQlExpr has returned its list.
ListReturned == hpc \in {"parsed", "compiled", "exec", "executed"}

\* getParserOp has returned the ParserFn.
Compiled == hpc \in {"compiled", "exec", "executed"}

\* The memory offset of the closing `>` of the capture expression e: the
\* offset right after the token that names it.
ClosingAt(e) == e.end

\* C6 (amended): in the list parseLogQlExpr returns, the endToken of every
\* Capture and OptionalCapture (a second alternative included) is the
\* character right after that capture's own closing `>` (NUL at the end of
\* the pattern).  An OrCapture's own `>` is followed by `?`, which is not
\* its endToken: its endToken is that of the Capture after it, or still NUL
\* where the assignment through prevCapture did not reach the list.
C6_EndTokenAfterClosing ==
    ListReturned =>
        \A i \in 1..Len(expressions) :
            LET e == expressions[i] IN
            /\ e.type \in {"Capture", "OptionalCapture"} =>
                   /\ Rd(Mem, ClosingAt(e)) = ">"
                   /\ e.endToken = Rd(Mem, ClosingAt(e) + 1)
            /\ e.type = "OrCapture" =>
                   /\ Rd(Mem, ClosingAt(e)) = ">"
                   /\ Rd(Mem, ClosingAt(e) + 1) = "?"
                   /\ e.endToken # "?"
                   /\ i < Len(expressions)
                   /\ e.endToken \in {expressions[i + 1].endToken, NUL}

\* C6 witness: a list was returned that holds an OrCapture and a Capture
\* whose endToken is a literal character.
C6_Witness ==
    /\ ListReturned
    /\ beyond = <<>>
    /\ \E i \in 1..Len(expressions) : expressions[i].type = "OrCapture"
    /\ \E i \in 1..Len(expressions) :
           expressions[i].type = "Capture" /\ expressions[i].endToken = "a"

\* C6 as stated: the endToken of every capture expression, an OrCapture
\* included, is the character right after its own closing `>` (for the
\* patterns parsed without a read past their NUL).
C6_AsStated ==
    (ListReturned /\ beyond = <<>>) =>
        \A i \in 1..Len(expressions) :
            expressions[i].type # "Literal" =>
                expressions[i].endToken =
                    Rd(Mem, ClosingAt(expressions[i]) + 1)

\* C7: in a compiled parser list every OrCapture is followed at once by a
\* Capture with the same endToken (so it is never last, and never followed
\* by a further alternative).
C7_AlternationAdjacency ==
    Compiled =>
        \A i \in 1..Len(parserList) :
            parserList[i].expType = "OrCapture" =>
                /\ i < Len(parserList)
                /\ parserList[i + 1].expType = "Capture"
                /\ parserList[i + 1].endToken = parserList[i].endToken

\* C8: no list is returned for a pattern in which the closing `>` of a
\* capture is followed at once by `<`; a pattern whose list was returned
\* holds no `>` followed by `<` at all.
C8_BackToBackRejected ==
    ListReturned =>
        /\ \A i \in 1..Len(expressions) :
               expressions[i].type # "Literal" =>
                   Rd(Mem, ClosingAt(expressions[i]) + 1) # "<"
        /\ \A j \in 1..(Len(logQl) - 1) :
               ~(logQl[j] = ">" /\ logQl[j + 1] = "<")

\* C8 witness: a pattern was rejected for a `<` right after the closing `>`
\* of the second alternative of an alternation.
C8_Witness ==
    /\ hpc = "thrown"
    /\ beyond = <<>>
    /\ herror.what = "backtoback"
    /\ Len(expressions) >= 2
    /\ expressions[Len(expressions) - 1].type = "OrCapture"
    /\ Rd(Mem, ClosingAt(Back(expressions)) + 1) = "<"

(***************************************************************************)
(* Claims about the pipeline executor                                      *)
(***************************************************************************)

\* The expression tag of the parser the k-th call ran.
CallExpType(k) == parserList[calls[k].parser].expType

\* C2: the second alternative of an alternation is run only right after the
\* first alternative failed, and from the cursor the first started at (for
\* the patterns compiled without a read past their NUL).
C2_SecondOnlyAfterFailure ==
    \A k \in 1..Len(calls) :
        (/\ beyond = <<>>
         /\ calls[k].parser > 1
         /\ parserList[calls[k].parser - 1].expType = "OrCapture") =>
            /\ k > 1
            /\ calls[k - 1].parser = calls[k].parser - 1
            /\ ~calls[k - 1].ok
            /\ calls[k].from = calls[k - 1].from

\* A parser tagged Literal or Capture failed in the k-th call.
MandatoryFailure(k) ==
    ~calls[k].ok /\ CallExpType(k) \in {"Literal", "Capture"}

\* C3: with every parser type implemented, executeParserList returns
\* ok=false exactly when a Literal or Capture parser failed; that call is
\* the last one made, and the parsers before it ran once each, in order.
C3_FailsIffMandatoryFails ==
    (\A i \in 1..Len(parserList) : parserList[i].type \in kAvailableParsers) =>
        /\ \A k \in 1..Len(calls) : calls[k].parser = k
        /\ \A k \in 1..Len(calls) :
               MandatoryFailure(k) =>
                   /\ k = Len(calls)
                   /\ hpc = "executed"
                   /\ ~execResult.ok
        /\ hpc = "executed" =>
               /\ ~execResult.ok <=> \E k \in 1..Len(calls) : MandatoryFailure(k)
               /\ execResult.ok => Len(calls) = Len(parserList)

\* C3 witness: a run passed over a failed OrCapture, then returned ok=false
\* at a failed Capture without running the parser after it.
C3_Witness ==
    /\ hpc = "executed"
    /\ beyond = <<>>
    /\ ~execResult.ok
    /\ Len(calls) = 2
    /\ ~calls[1].ok /\ CallExpType(1) = "OrCapture"
    /\ MandatoryFailure(2)
    /\ Len(parserList) > 2

\* The k-th call was a failure of an OptionalCapture parser.
OptionalFailure(k) == ~calls[k].ok /\ CallExpType(k) = "OptionalCapture"

\* C4: after a failed OptionalCapture the cursor is where it was before the
\* parser ran, and the next parser starts there.
C4_OptionalRestoresCursor ==
    \A k \in 1..Len(calls) :
        OptionalFailure(k) =>
            IF k = Len(calls)
              THEN eventIt = calls[k].from
              ELSE calls[k + 1].from = calls[k].from

\* C4 witness: an OptionalCapture parser failed after moving the cursor, and
\* the next parser ran.
C4_Witness ==
    \E k \in 1..Len(calls) :
        /\ OptionalFailure(k)
        /\ calls[k].to > calls[k].from
        /\ k < Len(calls)

\* C11: a second getParserOp call on the same pattern returns a ParserFn
\* that captured the same parser list as the first, so that the two return
\* the same result for every input (for the patterns compiled without a
\* read past their NUL).
C11_IdempotentCompile ==
    (Compiled /\ earlier # <<>> /\ beyond = <<>>) => parserList = earlier

(***************************************************************************)
(*             createParserFromExpresion ON ONE CAPTURE                    *)
(***************************************************************************)

\* The names captures are written with: two plain names, the bare `_` and a
\* temporary name.
CaptureNames == {<<"a">>, <<"b">>, <<"_">>, <<"_", "a">>}

\* The items written after the name: two keys of kTempTypeMapper and one
\* word that is none.
CaptureOptions == {<<"i", "p">>, <<"n", "u", "m", "b", "e", "r">>, <<"x">>}

\* The schema maps in force when the capture is compiled.
CreateSchemas == {{}, {<< <<"a">>, "Number" >>}, {<< <<"a">>, "IP" >>}}

\* The items joined with slashes: the text of the capture.
RECURSIVE JoinSlash(_)
JoinSlash(items) ==
    IF Len(items) = 1
      THEN items[1]
      ELSE items[1] \o <<"/">> \o JoinSlash(Tail(items))

CreateInit ==
    /\ DecoderIdle /\ TokIdle /\ MemIdle /\ HlpAtRest /\ MsgIdle /\ ConcIdle
    /\ kECSParserMapper \in CreateSchemas
    /\ cpc = "given"
    /\ capItems \in {<<name>> \o opts :
                       name \in CaptureNames,
                       opts \in SeqsUpTo(CaptureOptions, MaxOptions)}
    /\ cparser = NoParser

\* createParserFromExpresion(exp) for the Capture expression with that text.
CreateParser ==
    /\ cpc = "given"
    /\ cparser' = CreateParserFromExpresion(
                     [text |-> JoinSlash(capItems), type |-> "Capture",
                      endToken |-> NUL],
                     kECSParserMapper, <<>>)
    /\ cpc' = "created"
    /\ UNCHANGED capItems

CreateNext ==
    CreateParser /\ UNCHANGED <<decoderVars, memVars, tokVars, hlpVars, msgVars, concVars>>

SpecCreate == CreateInit /\ [][CreateNext]_vars

(***************************************************************************)
(* Claims about createParserFromExpresion                                  *)
(***************************************************************************)

\* The capture's name is not a temporary one.
PlainName == capItems[1][1] # "_"

\* The capture's name is a temporary one of more than one character.
LongTempName == capItems[1][1] = "_" /\ Len(capItems[1]) > 1

\* C12 (amended): a capture with a non-temporary name compiles to a parser
\* of that name whose type is the schema map's entry for the name, Any
\* without one; every item written after the name, the first included, is an
\* option given to the configurator.
C12_PlainNameTypeFromSchema ==
    (cpc = "created" /\ PlainName) =>
        /\ cparser.name = capItems[1]
        /\ cparser.type = (IF Has(kECSParserMapper, capItems[1])
                             THEN At(kECSParserMapper, capItems[1])
                             ELSE "Any")
        /\ cparser.options = Tail(capItems)

\* C12 witness: `<a/ip/...>` was compiled while the schema map gives a the
\* type Number.
C12_Witness ==
    /\ cpc = "created"
    /\ capItems[1] = <<"a">>
    /\ Len(capItems) >= 3
    /\ capItems[2] = <<"i", "p">>
    /\ kECSParserMapper = {<< <<"a">>, "Number" >>}
    /\ cparser.type = "Number"

\* C12 as stated: for a non-temporary name followed by a type, the parser's
\* type is the type written and the options are the items after it.
C12_AsStated ==
    (/\ cpc = "created"
     /\ PlainName
     /\ Len(capItems) >= 2
     /\ Has(kTempTypeMapper, capItems[2])) =>
        /\ cparser.type = At(kTempTypeMapper, capItems[2])
        /\ cparser.options = SubSeq(capItems, 3, Len(capItems))

\* C16 (amended): for a temporary name of more than one character followed
\* by opt1, the type is opt1's entry in kTempTypeMapper, Any without one, and
\* opt1 is removed from the options in both cases.  Without opt1 the type is
\* Any, and for the bare `_` the type is Any and every item after the name
\* is an option.
C16_TempTypeAndOptions ==
    cpc = "created" =>
        /\ (LongTempName /\ Len(capItems) >= 2) =>
              /\ cparser.type = (IF Has(kTempTypeMapper, capItems[2])
                                   THEN At(kTempTypeMapper, capItems[2])
                                   ELSE "Any")
              /\ cparser.options = SubSeq(capItems, 3, Len(capItems))
        /\ (LongTempName /\ Len(capItems) = 1) =>
              cparser.type = "Any" /\ cparser.options = <<>>
        /\ capItems[1] = <<"_">> =>
              cparser.type = "Any" /\ cparser.options = Tail(capItems)

\* C16 witness: `<_a/x/...>` was compiled, x being no key of kTempTypeMapper.
C16_Witness ==
    /\ cpc = "created"
    /\ LongTempName
    /\ Len(capItems) >= 3
    /\ ~Has(kTempTypeMapper, capItems[2])

\* C16 as stated: opt1 is removed from the options exactly when it is a key
\* of kTempTypeMapper; otherwise the type is Any and opt1 stays an option.
C16_AsStated ==
    (cpc = "created" /\ LongTempName /\ Len(capItems) >= 2) =>
        IF Has(kTempTypeMapper, capItems[2])
          THEN /\ cparser.type = At(kTempTypeMapper, capItems[2])
               /\ cparser.options = SubSeq(capItems, 3, Len(capItems))
          ELSE /\ cparser.type = "Any"
               /\ cparser.options = Tail(capItems)

(***************************************************************************)
(* Further claims about the decoder asset builder                          *)
(***************************************************************************)

\* The build left with the exception thrown for the absence of `key`.
ThrownForMissing(key) ==
    /\ bpc = "thrown"
    /\ berror.msg = key
    /\ ~berror.nested
    /\ ~HasMember(key)

\* C13: a definition without `name`, or without `check`, returns no
\* Connectable, and the exception thrown for the missing attribute is a
\* runtime error.
C13_MissingAttributeIsRuntime ==
    /\ (isObject /\ (~HasMember("name") \/ ~HasMember("check"))) =>
           bpc # "returned"
    /\ ThrownForMissing("name") => berror.kind = "runtime_error"
    /\ ThrownForMissing("check") => berror.kind = "runtime_error"

\* The calls of Registry::getBuilder made for stages (check included).
StageCalls == SelectSeq(registryCalls, LAMBDA n : n # "combinator.chain")

\* C19: in the pass over the remaining members, a stage whose builder is not
\* found as an OpBuilder or fails ends the build with a runtime error that
\* names the stage and nests the cause: it is the last registry call made,
\* it pushed no stage, and no Connectable is returned.  While the build goes
\* on, and when it returns, every stage call made has pushed its stage.
C19_StageFailureEndsBuild ==
    /\ bpc \in {"stages", "returned"} =>
           Len(stages) = 1 + Len(StageCalls)
    /\ (bpc = "thrown" /\ berror.msg \in StageKeys) =>
           /\ berror.kind = "runtime_error"
           /\ berror.nested
           /\ Back(registryCalls) = berror.msg
           /\ objDef[memberIt] = berror.msg
           /\ Len(stages) = Len(StageCalls)
           /\ \A i \in 1..Len(stages) :
                  stages[i].stage \in StageKeys => stages[i].member < memberIt
           /\ chained = <<>>

\* C19 witness: the second stage key of a definition failed after the first
\* was built, with a further stage key listed after it.
C19_Witness ==
    /\ bpc = "thrown"
    /\ berror.msg \in StageKeys
    /\ Len(stages) >= 3
    /\ \E i \in (memberIt + 1)..Len(objDef) :
           objDef[i] \in StageKeys /\ objDef[i] \notin proccessed
           /\ objDef[i] # berror.msg

\* How many of the stage calls name key.
TimesBuilt(key) ==
    Cardinality({k \in 1..Len(StageCalls) : StageCalls[k] = key})

\* The distinct keys of the definition that are none of the four attributes.
RemainingKeys == {objDef[i] : i \in 1..Len(objDef)} \ AttributeKeys

\* C23: in a successful build the general pass hands none of name, parents,
\* metadata, check to the registry (check is looked up once, before the
\* pass), every other distinct key is built exactly once however often the
\* definition holds it, and the stage list has 2 + that many entries.
C23_DistinctKeysBuiltOnce ==
    bpc = "returned" =>
        /\ StageCalls[1] = "check"
        /\ \A k \in 2..Len(StageCalls) : StageCalls[k] \notin AttributeKeys
        /\ \A key \in StageKeys :
               TimesBuilt(key) = IF key \in RemainingKeys THEN 1 ELSE 0
        /\ Len(stages) = 2 + Cardinality(RemainingKeys)
        /\ chained = stages

\* C23 witness: a build succeeded on a definition that holds a stage key
\* twice, with another stage key after the second of them.
C23_Witness ==
    /\ bpc = "returned"
    /\ \E i, j, k \in 1..Len(objDef) :
           /\ i < j /\ j < k
           /\ objDef[i] = objDef[j]
           /\ objDef[i] \in StageKeys
           /\ objDef[k] \in StageKeys \ {objDef[i]}
    /\ Len(stages) = 4

(***************************************************************************)
(* Further claims about getParserOp and the executor                       *)
(***************************************************************************)

\* C14: getParserOp leaves with an invalid_argument for the empty pattern,
\* for an unknown token met by the loop of parseLogQlExpr, and for two
\* captures back to back, whose message names the position (for the
\* patterns parsed without a read past their NUL).
C14_InvalidArgumentKinds ==
    (/\ hpc = "thrown"
     /\ beyond = <<>>
     /\ herror.what \in {"empty", "unknown", "backtoback"}) =>
        /\ herror.kind = "invalid_argument"
        /\ herror.what = "backtoback" => herror.prev >= 1

\* The expression e was made from a Literal token: its text is not empty
\* and does not start with a bracket or a question mark.
FromLiteralToken(e) == e.text # <<>> /\ e.text[1] \notin {"<", ">", "?"}

\* C15: in a list parseLogQlExpr returns, the second alternative of every
\* alternation was made from a Literal token (for the patterns parsed
\* without a read past their NUL).
C15_SecondAlternativeIsLiteral ==
    (ListReturned /\ beyond = <<>>) =>
        \A i \in 2..Len(expressions) :
            expressions[i - 1].type = "OrCapture" =>
                FromLiteralToken(expressions[i])

\* The run ended at the parser parserIt, whose type has no implementation.
EndedAtMissing ==
    /\ hpc = "executed"
    /\ parserIt <= Len(parserList)
    /\ parserList[parserIt].type \notin kAvailableParsers

\* C17: no parser without implementation is ever called, and none is passed:
\* the run ends at the first one, whatever its expType, with ok=false and a
\* trace that is the success lines of the parsers before it followed by the
\* missing-implementation entry naming it.
C17_MissingImplementationEndsRun ==
    /\ \A k \in 1..Len(calls) :
           /\ parserList[calls[k].parser].type \in kAvailableParsers
           /\ \A i \in 1..calls[k].parser :
                  parserList[i].type \in kAvailableParsers
    /\ hpc = "exec" =>
           \A i \in 1..(parserIt - 1) :
               parserList[i].type \in kAvailableParsers
    /\ EndedAtMissing =>
           /\ ~execResult.ok
           /\ Len(execResult.trace) = Len(trace) + 1
           /\ SubSeq(execResult.trace, 1, Len(trace)) = trace
           /\ Back(execResult.trace) =
                  [name |-> parserList[parserIt].name, what |-> "missing"]
           /\ \A j \in 1..Len(trace) : trace[j].what = "success"
           /\ Len(calls) = parserIt - 1
    /\ (hpc = "executed" /\ ~EndedAtMissing) =>
           \A j \in 1..Len(execResult.trace) :
               execResult.trace[j].what # "missing"

\* C17 witness: after a success line, the run ended at an OptionalCapture or
\* OrCapture parser whose type has no implementation.
C17_Witness ==
    /\ EndedAtMissing
    /\ beyond = <<>>
    /\ parserList[parserIt].expType \in {"OptionalCapture", "OrCapture"}
    /\ Len(trace) >= 1
    /\ parserIt < Len(parserList)

\* C18: the trace returned holds one entry for every parser that ran, in
\* the order they ran: a success entry for a call that succeeded, a failure
\* entry for a call that failed (with every parser type implemented).
C18_TraceEntryPerParser ==
    (/\ hpc = "executed"
     /\ beyond = <<>>
     /\ \A i \in 1..Len(parserList) :
            parserList[i].type \in kAvailableParsers) =>
        /\ Len(execResult.trace) = Len(calls)
        /\ \A k \in 1..Len(calls) :
               execResult.trace[k] =
                   [name |-> parserList[calls[k].parser].name,
                    what |-> IF calls[k].ok THEN "success" ELSE "failure"]

(***************************************************************************)
(* MessageController (messageController.hpp).  Every operation holds        *)
(* m_mutex from its first statement to its return and is one action.  The   *)
(* clock counts ticks; a second is TicksPerSecond of them, as a            *)
(* std::chrono::seconds is converted to the clock's finer duration before   *)
(* the comparison of line 46.                                               *)
(***************************************************************************)

\* The largest intervalTime given to setComponentContext, in seconds.
MaxInterval == 2

\* Ticks of steady_clock::duration in one std::chrono::seconds.
TicksPerSecond == 2

\* The clock is followed until one tick past the largest interval.
MaxClock == TicksPerSecond * MaxInterval + 1

HeaderIds == {"c1", "c2"}
Handles == {"h1", "h2"}
Intervals == (0 - 1)..MaxInterval

\* m[k] = v of a std::map.
MapPut(m, k, v) == [x \in (DOMAIN m) \cup {k} |-> IF x = k THEN v ELSE m[x]]

\* m.erase(k) of a std::map.
MapErase(m, k) == [x \in (DOMAIN m) \ {k} |-> m[x]]

\* A mutant of WithinInterval: the elapsed time is cut to whole seconds
\* before it is compared.
WithinIntervalTruncated(elapsed, intervalTime) ==
    elapsed \div TicksPerSecond <= intervalTime

\* Line 46: now() - lastMsgTime <= intervalTime, compared in clock ticks.
WithinInterval(elapsed, intervalTime) ==
    elapsed <= intervalTime * TicksPerSecond

MsgInit ==
    /\ DecoderIdle /\ TokIdle /\ MemIdle /\ HlpIdle /\ CreateIdle /\ ConcIdle
    /\ m_componentContexts = EmptyMap
    /\ m_componentHandle = EmptyMap
    /\ m_componentShutdownStatus = EmptyMap
    /\ now \in Epoch..MaxClock
    /\ mcall = NoCall
    /\ lastSetInterval = EmptyMap

Returned(op, id, retVal) ==
    mcall' = [op |-> op, id |-> id, retVal |-> retVal]

\* Lines 38-49.
WaitToStartSync(messageHeaderId) ==
    /\ Returned("waitToStartSync", messageHeaderId,
                IF messageHeaderId \in DOMAIN m_componentContexts
                  THEN LET itCtx == m_componentContexts[messageHeaderId] IN
                       WithinInterval(now - itCtx.lastMsgTime,
                                      itCtx.intervalTime)
                  ELSE FALSE)
    /\ UNCHANGED <<m_componentContexts, m_componentHandle,
                   m_componentShutdownStatus, now, lastSetInterval>>

\* Lines 51-71.
SetComponentContext(handle, messageHeaderId, intervalTime) ==
    /\ m_componentContexts' =
           IF intervalTime > 0
             THEN MapPut(m_componentContexts, messageHeaderId,
                         [lastMsgTime |-> Epoch,
                          intervalTime |-> intervalTime])
             ELSE MapErase(m_componentContexts, messageHeaderId)
    /\ m_componentHandle' = MapPut(m_componentHandle, messageHeaderId, handle)
    /\ m_componentShutdownStatus' =
           MapPut(m_componentShutdownStatus, messageHeaderId, FALSE)
    /\ lastSetInterval' = MapPut(lastSetInterval, messageHeaderId, intervalTime)
    /\ Returned("setComponentContext", messageHeaderId, FALSE)
    /\ UNCHANGED now

\* A mutant of HandleMatches: every registered component matches.
HandleMatchesAny(id, handle) == id \in DOMAIN m_componentHandle

\* Line 78: `it.second == handle` for the entry of id in m_componentHandle.
HandleMatches(id, handle) ==
    /\ id \in DOMAIN m_componentHandle
    /\ m_componentHandle[id] = handle

\* Lines 76-82: m_componentShutdownStatus after the loop over
\* m_componentHandle; operator[] would add a key the map does not hold.
ShutdownStatusAfter(handle, shutdownStatus) ==
    [id \in (DOMAIN m_componentShutdownStatus) \cup
            {k \in HeaderIds : HandleMatches(k, handle)} |->
        IF HandleMatches(id, handle)
          THEN shutdownStatus
          ELSE m_componentShutdownStatus[id]]

\* Lines 73-83.  The call's arguments are kept with the returned call.
SetShutdownStatus(handle, shutdownStatus) ==
    /\ m_componentShutdownStatus' =
           ShutdownStatusAfter(handle, shutdownStatus)
    /\ mcall' = [op |-> "setShutdownStatus", id |-> "", retVal |-> FALSE,
                 handle |-> handle, shutdownStatus |-> shutdownStatus]
    /\ UNCHANGED <<m_componentContexts, m_componentHandle, now,
                   lastSetInterval>>

\* Lines 85-96.
GetShutdownStatus(messageHeaderId) ==
    /\ Returned("getShutdownStatus", messageHeaderId,
                IF messageHeaderId \in DOMAIN m_componentShutdownStatus
                  THEN m_componentShutdownStatus[messageHeaderId]
                  ELSE FALSE)
    /\ UNCHANGED <<m_componentContexts, m_componentHandle,
                   m_componentShutdownStatus, now, lastSetInterval>>

\* Lines 98-107.
RefreshLastMsgTime(messageHeaderId) ==
    /\ m_componentContexts' =
           IF messageHeaderId \in DOMAIN m_componentContexts
             THEN [m_componentContexts EXCEPT
                       ![messageHeaderId].lastMsgTime = now]
             ELSE m_componentContexts
    /\ Returned("refreshLastMsgTime", messageHeaderId, FALSE)
    /\ UNCHANGED <<m_componentHandle, m_componentShutdownStatus, now,
                   lastSetInterval>>

\* The steady clock advances between calls.
Tick ==
    /\ now < MaxClock
    /\ now' = now + 1
    /\ mcall' = NoCall
    /\ UNCHANGED <<m_componentContexts, m_componentHandle,
                   m_componentShutdownStatus, lastSetInterval>>

MsgNext ==
    \/ (\E id \in HeaderIds : WaitToStartSync(id))
          /\ UNCHANGED <<decoderVars, memVars, tokVars, hlpVars, createVars,
                         concVars>>
    \/ (\E h \in Handles, id \in HeaderIds, i \in Intervals :
            SetComponentContext(h, id, i))
          /\ UNCHANGED <<decoderVars, memVars, tokVars, hlpVars, createVars,
                         concVars>>
    \/ (\E h \in Handles, b \in BOOLEAN : SetShutdownStatus(h, b))
          /\ UNCHANGED <<decoderVars, memVars, tokVars, hlpVars, createVars,
                         concVars>>
    \/ (\E id \in HeaderIds : GetShutdownStatus(id))
          /\ UNCHANGED <<decoderVars, memVars, tokVars, hlpVars, createVars,
                         concVars>>
    \/ (\E id \in HeaderIds : RefreshLastMsgTime(id))
          /\ UNCHANGED <<decoderVars, memVars, tokVars, hlpVars, createVars,
                         concVars>>
    \/ Tick /\ UNCHANGED <<decoderVars, memVars, tokVars, hlpVars, createVars,
                            concVars>>

SpecMsg == MsgInit /\ [][MsgNext]_vars

(***************************************************************************)
(* Claims about MessageController                                          *)
(***************************************************************************)

\* The last setComponentContext for id had a positive interval.
PositiveInterval(id) ==
    /\ id \in DOMAIN lastSetInterval
    /\ lastSetInterval[id] > 0

\* What holds of the contexts and of the call that returned last.
ContextsFollowLastSet ==
    /\ \A id \in HeaderIds :
           (id \in DOMAIN m_componentContexts) <=> PositiveInterval(id)
    /\ \A id \in DOMAIN m_componentContexts :
           m_componentContexts[id].intervalTime = lastSetInterval[id]
    /\ mcall.op = "waitToStartSync" =>
           mcall.retVal =
               (/\ PositiveInterval(mcall.id)
                /\ now - m_componentContexts[mcall.id].lastMsgTime
                       <= lastSetInterval[mcall.id] * TicksPerSecond)
    /\ (mcall.op = "setComponentContext" /\ PositiveInterval(mcall.id)) =>
           m_componentContexts[mcall.id].lastMsgTime = Epoch

\* A step changes the lastMsgTime of a context that stays only by
\* refreshLastMsgTime of its id, or back to the epoch by setComponentContext.
LastMsgTimeStep ==
    \A id \in HeaderIds :
        (/\ id \in DOMAIN m_componentContexts
         /\ id \in DOMAIN m_componentContexts'
         /\ m_componentContexts'[id].lastMsgTime #
                m_componentContexts[id].lastMsgTime) =>
            /\ mcall'.id = id
            /\ \/ mcall'.op = "refreshLastMsgTime"
               \/ /\ mcall'.op = "setComponentContext"
                  /\ m_componentContexts'[id].lastMsgTime = Epoch

\* C20: waitToStartSync(id) returns true exactly when the last
\* setComponentContext for id had a positive interval and the time elapsed
\* since id's lastMsgTime is at most that interval, and false for an id never
\* registered or last registered with an interval <= 0; lastMsgTime is the
\* epoch after setComponentContext and changes only by refreshLastMsgTime(id).
C20_WaitToStartSync ==
    []ContextsFollowLastSet /\ [][LastMsgTimeStep]_vars

\* C20 witness: a registered id was refreshed, more than its interval passed,
\* and waitToStartSync returned false for it.
C20_Witness ==
    /\ mcall.op = "waitToStartSync"
    /\ PositiveInterval(mcall.id)
    /\ m_componentContexts[mcall.id].lastMsgTime > Epoch
    /\ now - m_componentContexts[mcall.id].lastMsgTime
           > lastSetInterval[mcall.id] * TicksPerSecond
    /\ ~mcall.retVal

\* What setShutdownStatus(handle, s) leaves: the flag is s for the components
\* registered with that handle, every other flag is as before, and no handle
\* and no context changes.
ShutdownStatusStep ==
    mcall'.op = "setShutdownStatus" =>
        /\ DOMAIN m_componentShutdownStatus' = DOMAIN m_componentShutdownStatus
        /\ \A id \in DOMAIN m_componentShutdownStatus :
               m_componentShutdownStatus'[id] =
                   IF id \in DOMAIN m_componentHandle
                      /\ m_componentHandle[id] = mcall'.handle
                     THEN mcall'.shutdownStatus
                     ELSE m_componentShutdownStatus[id]
        /\ m_componentHandle' = m_componentHandle
        /\ m_componentContexts' = m_componentContexts

\* What holds after setComponentContext and getShutdownStatus return.
ShutdownStatusRead ==
    /\ mcall.op = "setComponentContext" =>
           /\ mcall.id \in DOMAIN m_componentShutdownStatus
           /\ ~m_componentShutdownStatus[mcall.id]
    /\ mcall.op = "getShutdownStatus" =>
           mcall.retVal =
               (/\ mcall.id \in DOMAIN m_componentHandle
                /\ m_componentShutdownStatus[mcall.id])

\* C21: setShutdownStatus(handle, s) sets the flag to s for exactly the
\* components whose registered handle is handle and changes no other flag,
\* no handle and no context; setComponentContext resets its component's flag
\* to false; getShutdownStatus of an unregistered id is false.
C21_ShutdownStatusFrame ==
    []ShutdownStatusRead /\ [][ShutdownStatusStep]_vars

\* C21 witness: of two components under different handles, one was shut down
\* by setShutdownStatus on its handle and the other kept its flag.
C21_Witness ==
    /\ mcall.op = "setShutdownStatus"
    /\ mcall.shutdownStatus
    /\ DOMAIN m_componentHandle = {"c1", "c2"}
    /\ m_componentHandle["c1"] = mcall.handle
    /\ m_componentHandle["c2"] # mcall.handle
    /\ m_componentShutdownStatus["c1"]
    /\ ~m_componentShutdownStatus["c2"]

(***************************************************************************)
(* Further claims about parseLogQlExpr                                     *)
(***************************************************************************)

\* C22: parseLogQlExpr reads no character beyond the terminating NUL of its
\* pattern, whether it returns or throws.
C22_NoReadBeyondNul == maxRead <= NulAt

(***************************************************************************)
(* MessageController called from several threads.  An operation is entered *)
(* by taking m_mutex (std::shared_lock in waitToStartSync and              *)
(* getShutdownStatus, std::lock_guard in the other three), then runs its   *)
(* statements one action each, then leaves and releases the mutex.  A      *)
(* thread that cannot take the mutex waits outside.  The clock stands      *)
(* still, and mcall and lastSetInterval are not followed here.             *)
(***************************************************************************)

\* std::shared_lock<std::shared_timed_mutex>: no thread owns the mutex.
CanLockShared == m_mutex.owner = ""

\* A mutant of CanLockExclusive: threads that share the mutex do not keep a
\* writer out.
CanLockExclusiveIgnoringReaders == m_mutex.owner = ""

\* std::lock_guard<std::shared_timed_mutex>: nobody owns or shares the mutex.
CanLockExclusive == m_mutex.owner = "" /\ m_mutex.shared = {}

ConcInit ==
    /\ DecoderIdle /\ TokIdle /\ MemIdle /\ HlpIdle /\ CreateIdle
    /\ m_componentContexts = EmptyMap
    /\ m_componentHandle = EmptyMap
    /\ m_componentShutdownStatus = EmptyMap
    /\ now \in {Epoch, MaxClock}
    /\ mcall = NoCall
    /\ lastSetInterval = EmptyMap
    /\ ConcIdle

\* Thread t is in operation op at pc with these arguments.
Inside(t, op, pc, handle, id, intervalTime, flag) ==
    thread' = [thread EXCEPT ![t] =
                  [op |-> op, pc |-> pc, handle |-> handle, id |-> id,
                   intervalTime |-> intervalTime, flag |-> flag]]

\* Thread t goes on to pc.
Goto(t, pc) == thread' = [thread EXCEPT ![t].pc = pc]

\* What the steps of the operations leave unchanged besides the maps.
ConcFrame == UNCHANGED <<now, mcall, lastSetInterval>>

\* Lines 40-41 and 87-88: a reader enters.
LockShared(t, op, messageHeaderId) ==
    /\ thread[t] = Outside
    /\ CanLockShared
    /\ m_mutex' = [m_mutex EXCEPT !.shared = @ \cup {t}]
    /\ Inside(t, op, "shared", "", messageHeaderId, 0, FALSE)
    /\ UNCHANGED <<m_componentContexts, m_componentHandle,
                   m_componentShutdownStatus>>
    /\ ConcFrame

BeginWaitToStartSync(t) ==
    \E id \in HeaderIds : LockShared(t, "waitToStartSync", id)

BeginGetShutdownStatus(t) ==
    \E id \in HeaderIds : LockShared(t, "getShutdownStatus", id)

\* Lines 42-47: retVal of waitToStartSync, kept in flag.
ReadContext(t) ==
    /\ thread[t].op = "waitToStartSync"
    /\ thread[t].pc = "shared"
    /\ thread' = [thread EXCEPT
           ![t].pc = "found",
           ![t].flag =
               IF thread[t].id \in DOMAIN m_componentContexts
                 THEN LET itCtx == m_componentContexts[thread[t].id] IN
                      WithinInterval(now - itCtx.lastMsgTime,
                                     itCtx.intervalTime)
                 ELSE FALSE]
    /\ UNCHANGED <<m_mutex, m_componentContexts, m_componentHandle,
                   m_componentShutdownStatus>>
    /\ ConcFrame

\* Lines 89-94: retVal of getShutdownStatus, kept in flag.
ReadShutdownStatus(t) ==
    /\ thread[t].op = "getShutdownStatus"
    /\ thread[t].pc = "shared"
    /\ thread' = [thread EXCEPT
           ![t].pc = "found",
           ![t].flag =
               IF thread[t].id \in DOMAIN m_componentShutdownStatus
                 THEN m_componentShutdownStatus[thread[t].id]
                 ELSE FALSE]
    /\ UNCHANGED <<m_mutex, m_componentContexts, m_componentHandle,
                   m_componentShutdownStatus>>
    /\ ConcFrame

\* Lines 48 and 95: the reader returns and its shared_lock is released.
UnlockShared(t) ==
    /\ thread[t].pc = "found"
    /\ m_mutex' = [m_mutex EXCEPT !.shared = @ \ {t}]
    /\ thread' = [thread EXCEPT ![t] = Outside]
    /\ UNCHANGED <<m_componentContexts, m_componentHandle,
                   m_componentShutdownStatus>>
    /\ ConcFrame

\* Lines 55, 75 and 100: a writer enters.
LockExclusive(t, op, handle, messageHeaderId, intervalTime, flag) ==
    /\ thread[t] = Outside
    /\ CanLockExclusive
    /\ m_mutex' = [m_mutex EXCEPT !.owner = t]
    /\ Inside(t, op, "exclusive", handle, messageHeaderId, intervalTime, flag)
    /\ UNCHANGED <<m_componentContexts, m_componentHandle,
                   m_componentShutdownStatus>>
    /\ ConcFrame

BeginSetComponentContext(t) ==
    \E h \in Handles, id \in HeaderIds, i \in Intervals :
        LockExclusive(t, "setComponentContext", h, id, i, FALSE)

BeginSetShutdownStatus(t) ==
    \E h \in Handles, b \in BOOLEAN :
        LockExclusive(t, "setShutdownStatus", h, "", 0, b)

BeginRefreshLastMsgTime(t) ==
    \E id \in HeaderIds :
        LockExclusive(t, "refreshLastMsgTime", "", id, 0, FALSE)

\* Lines 56-67.
WriteContext(t) ==
    /\ thread[t].op = "setComponentContext"
    /\ thread[t].pc = "exclusive"
    /\ m_componentContexts' =
           IF thread[t].intervalTime > 0
             THEN MapPut(m_componentContexts, thread[t].id,
                         [lastMsgTime |-> Epoch,
                          intervalTime |-> thread[t].intervalTime])
             ELSE MapErase(m_componentContexts, thread[t].id)
    /\ Goto(t, "contextWritten")
    /\ UNCHANGED <<m_mutex, m_componentHandle, m_componentShutdownStatus>>
    /\ ConcFrame

\* Line 69.
WriteHandle(t) ==
    /\ thread[t].pc = "contextWritten"
    /\ m_componentHandle' =
           MapPut(m_componentHandle, thread[t].id, thread[t].handle)
    /\ Goto(t, "handleWritten")
    /\ UNCHANGED <<m_mutex, m_componentContexts, m_componentShutdownStatus>>
    /\ ConcFrame

\* Line 70.
WriteStatusFalse(t) ==
    /\ thread[t].pc = "handleWritten"
    /\ m_componentShutdownStatus' =
           MapPut(m_componentShutdownStatus, thread[t].id, FALSE)
    /\ Goto(t, "done")
    /\ UNCHANGED <<m_mutex, m_componentContexts, m_componentHandle>>
    /\ ConcFrame

\* Lines 76-82: the loop of setShutdownStatus, run under the lock.
WriteShutdownStatus(t) ==
    /\ thread[t].op = "setShutdownStatus"
    /\ thread[t].pc = "exclusive"
    /\ m_componentShutdownStatus' =
           ShutdownStatusAfter(thread[t].handle, thread[t].flag)
    /\ Goto(t, "done")
    /\ UNCHANGED <<m_mutex, m_componentContexts, m_componentHandle>>
    /\ ConcFrame

\* Lines 101-106.
WriteLastMsgTime(t) ==
    /\ thread[t].op = "refreshLastMsgTime"
    /\ thread[t].pc = "exclusive"
    /\ m_componentContexts' =
           IF thread[t].id \in DOMAIN m_componentContexts
             THEN [m_componentContexts EXCEPT ![thread[t].id].lastMsgTime = now]
             ELSE m_componentContexts
    /\ Goto(t, "done")
    /\ UNCHANGED <<m_mutex, m_componentHandle, m_componentShutdownStatus>>
    /\ ConcFrame

\* Lines 71, 83 and 107: the writer returns and its lock_guard is released.
UnlockExclusive(t) ==
    /\ thread[t].pc = "done"
    /\ m_mutex' = [m_mutex EXCEPT !.owner = ""]
    /\ thread' = [thread EXCEPT ![t] = Outside]
    /\ UNCHANGED <<m_componentContexts, m_componentHandle,
                   m_componentShutdownStatus>>
    /\ ConcFrame

\* The variables of the other subsystems.
OtherVars == <<decoderVars, memVars, tokVars, hlpVars, createVars>>

ConcNext ==
    \/ (\E t \in Threads : BeginWaitToStartSync(t)) /\ UNCHANGED OtherVars
    \/ (\E t \in Threads : BeginGetShutdownStatus(t)) /\ UNCHANGED OtherVars
    \/ (\E t \in Threads : ReadContext(t)) /\ UNCHANGED OtherVars
    \/ (\E t \in Threads : ReadShutdownStatus(t)) /\ UNCHANGED OtherVars
    \/ (\E t \in Threads : UnlockShared(t)) /\ UNCHANGED OtherVars
    \/ (\E t \in Threads : BeginSetComponentContext(t)) /\ UNCHANGED OtherVars
    \/ (\E t \in Threads : BeginSetShutdownStatus(t)) /\ UNCHANGED OtherVars
    \/ (\E t \in Threads : BeginRefreshLastMsgTime(t)) /\ UNCHANGED OtherVars
    \/ (\E t \in Threads : WriteContext(t)) /\ UNCHANGED OtherVars
    \/ (\E t \in Threads : WriteHandle(t)) /\ UNCHANGED OtherVars
    \/ (\E t \in Threads : WriteStatusFalse(t)) /\ UNCHANGED OtherVars
    \/ (\E t \in Threads : WriteShutdownStatus(t)) /\ UNCHANGED OtherVars
    \/ (\E t \in Threads : WriteLastMsgTime(t)) /\ UNCHANGED OtherVars
    \/ (\E t \in Threads : UnlockExclusive(t)) /\ UNCHANGED OtherVars

SpecConc == ConcInit /\ [][ConcNext]_vars

(***************************************************************************)
(* Claims about MessageController under concurrent calls                   *)
(***************************************************************************)

\* The three maps, and the key sets a reader can rely on.
Maps == <<m_componentContexts, m_componentHandle, m_componentShutdownStatus>>

KeySetsAgree ==
    /\ DOMAIN m_componentHandle = DOMAIN m_componentShutdownStatus
    /\ DOMAIN m_componentContexts \subseteq DOMAIN m_componentHandle

Readers == {t \in Threads : thread[t].pc \in {"shared", "found"}}
Writers == {t \in Threads : thread[t].pc \notin {"outside", "shared", "found"}}

\* A writer is alone in the controller; readers are in it only together with
\* readers; whatever a reader, or a thread about to enter, can see has
\* agreeing key sets.
ExclusiveWritersSharedReaders ==
    /\ Writers = (IF m_mutex.owner = "" THEN {} ELSE {m_mutex.owner})
    /\ Readers = m_mutex.shared
    /\ Writers # {} => Readers = {}
    /\ Writers = {} => KeySetsAgree

\* A step that changes a map is a step of the one thread that owns the mutex
\* and goes on owning it, with no reader inside; refreshLastMsgTime and
\* setShutdownStatus add no key.
WriterStep ==
    Maps' # Maps =>
        /\ m_mutex.owner # ""
        /\ m_mutex' = m_mutex
        /\ m_mutex.shared = {}
        /\ \A t \in Threads \ {m_mutex.owner} : thread'[t] = thread[t]
        /\ thread[m_mutex.owner].op \in
               {"refreshLastMsgTime", "setShutdownStatus"} =>
                  /\ DOMAIN m_componentContexts' = DOMAIN m_componentContexts
                  /\ DOMAIN m_componentHandle' = DOMAIN m_componentHandle
                  /\ DOMAIN m_componentShutdownStatus' =
                         DOMAIN m_componentShutdownStatus

\* C24: under every interleaving each operation takes effect atomically
\* (writers hold the lock exclusively, readers share it); every state a
\* reader can observe has the same keys in the handle and status maps and
\* every context key among them; refreshLastMsgTime and setShutdownStatus
\* never add a key.
C24_AtomicOperations ==
    []ExclusiveWritersSharedReaders /\ [][WriterStep]_vars

\* C24 witness: setComponentContext has written the handle of a new id and
\* not yet its status, so the key sets differ, while another thread is
\* kept outside.
C24_Witness ==
    /\ m_mutex.owner = "t1"
    /\ thread["t1"].op = "setComponentContext"
    /\ thread["t1"].pc = "handleWritten"
    /\ ~KeySetsAgree
    /\ thread["t2"] = Outside
    /\ m_componentHandle # EmptyMap
    /\ DOMAIN m_componentContexts # {}

=============================================================================
